---- MODULE Spec2Model ----
(***************************************************************************)
(* Model of app.py: the two connection-descriptor builders                 *)
(* (create_engine_with_dsn, create_engine_with_url_params), the            *)
(* verification helper test_connection and the script's main block.        *)
(*                                                                         *)
(* A Python str is modelled as a sequence of tokens.  A token is either    *)
(* one reserved character (a member of Reserved) or a maximal run of       *)
(* characters that urllib's quote_plus leaves alone (letters, digits and   *)
(* "_.-~"), written as one TLA+ string.  No run used below is the          *)
(* concatenation of other runs, so two token sequences are equal exactly   *)
(* when the Python strings are.                                            *)
(***************************************************************************)
EXTENDS Integers, Sequences, FiniteSets, TLC

\* Longest argument string (in tokens) the builders are called with.
MaxLen == 2

\* create_engine's fixed pool settings.
PoolSize == 5
MaxOverflow == 10

(***************************************************************************)
(* Strings                                                                 *)
(***************************************************************************)

\* The characters quote_plus does not leave alone, among those modelled.
Reserved == {" ", "@", "!", ":", "/", ";", "=", "?", "&", "%", "+", "#"}

\* ASCII code of a reserved character.
Ord(c) ==
    CASE c = " " -> 32 [] c = "!" -> 33 [] c = "#" -> 35 [] c = "%" -> 37
      [] c = "&" -> 38 [] c = "+" -> 43 [] c = "/" -> 47 [] c = ":" -> 58
      [] c = ";" -> 59 [] c = "=" -> 61 [] c = "?" -> 63 [] c = "@" -> 64

HexDigits == <<"0", "1", "2", "3", "4", "5", "6", "7",
               "8", "9", "A", "B", "C", "D", "E", "F">>

\* '%{:02X}'.format(code)
PercentEscape(c) ==
    <<"%", HexDigits[(Ord(c) \div 16) + 1], HexDigits[(Ord(c) % 16) + 1]>>

\* A variant of quote_plus that turns spaces into "+" first and then keeps
\* every "+" as safe.
QuotePlusKeepPlus(s) ==
    LET F[i \in 0..Len(s)] ==
            IF i = 0 THEN <<>>
            ELSE F[i - 1] \o (IF s[i] = " " THEN <<"+">>
                              ELSE IF s[i] \in Reserved \ {"+"}
                                   THEN PercentEscape(s[i])
                                   ELSE <<s[i]>>)
    IN  F[Len(s)]

\* A variant of quote_plus with quote's default safe="/" and "@:" kept too.
QuotePlusSafeDelims(s) ==
    LET F[i \in 0..Len(s)] ==
            IF i = 0 THEN <<>>
            ELSE F[i - 1] \o (IF s[i] = " " THEN <<"+">>
                              ELSE IF s[i] \in Reserved \ {"/", "@", ":"}
                                   THEN PercentEscape(s[i])
                                   ELSE <<s[i]>>)
    IN  F[Len(s)]

\* urllib.parse.quote_plus(s): a space becomes "+", every other reserved
\* character its percent escape, everything else is copied.
QuotePlus(s) ==
    LET F[i \in 0..Len(s)] ==
            IF i = 0 THEN <<>>
            ELSE F[i - 1] \o (IF s[i] = " " THEN <<"+">>
                              ELSE IF s[i] \in Reserved
                                   THEN PercentEscape(s[i])
                                   ELSE <<s[i]>>)
    IN  F[Len(s)]

DecDigits == <<"0", "1", "2", "3", "4", "5", "6", "7", "8", "9">>

\* str(n) for an int.
RECURSIVE DigitsOf(_)
DigitsOf(n) ==
    IF n < 10 THEN <<DecDigits[n + 1]>>
    ELSE DigitsOf(n \div 10) \o <<DecDigits[(n % 10) + 1]>>

IntToStr(n) == IF n < 0 THEN <<"-">> \o DigitsOf(0 - n) ELSE DigitsOf(n)

\* sep.join(parts)
RECURSIVE Join(_, _)
Join(sep, parts) ==
    IF parts = <<>> THEN <<>>
    ELSE IF Len(parts) = 1 THEN parts[1]
    ELSE parts[1] \o <<sep>> \o Join(sep, Tail(parts))

(***************************************************************************)
(* Arguments                                                               *)
(***************************************************************************)

\* ca_cert_path: str | None
None == [given |-> FALSE, path |-> <<>>]
Some(s) == [given |-> TRUE, path |-> s]

\* Python truth value of ca_cert_path: None and "" are false.
Truthy(ca) == ca.given /\ ca.path # <<>>

\* A variant of the truth test that tells only None from a string.
IsNotNone(ca) == ca.given

\* A variant without the test: the attribute is always appended.
CaAlways(ca) == TRUE

\* `if ca_cert_path:`
CaSupplied(ca) == Truthy(ca)

\* The module-level defaults.
DB2_USER == <<"db2user">>
DB2_PASSWORD == <<"db2pwd">>
DB2_HOST == <<"db2-prod.example.com">>
DB2_PORT == 50000
DB2_DATABASE == <<"MYDB">>
DB2_CA_CERT == <<"/", "path", "/", "to", "/", "ca_certificate.pem">>
DB2_CONNECT_TIMEOUT == 10

Defaults ==
    [user |-> DB2_USER, password |-> DB2_PASSWORD, host |-> DB2_HOST,
     port |-> DB2_PORT, database |-> DB2_DATABASE,
     ca_cert_path |-> Some(DB2_CA_CERT),
     connect_timeout |-> DB2_CONNECT_TIMEOUT]

(***************************************************************************)
(* The builders                                                            *)
(***************************************************************************)

\* create_engine(url, pool_size=5, max_overflow=10, future=True)
create_engine(url) ==
    [url |-> url, pool_size |-> PoolSize, max_overflow |-> MaxOverflow]

\* No engine built yet.
NoEngine == [url |-> <<>>, pool_size |-> 0, max_overflow |-> 0]

\* dsn_attrs of create_engine_with_dsn, after the optional append.
dsn_attrs(p) ==
    << <<"DATABASE", "=">> \o p.database,
       <<"HOSTNAME", "=">> \o p.host,
       <<"PORT", "=">> \o IntToStr(p.port),
       <<"PROTOCOL", "=", "TCPIP">>,
       <<"UID", "=">> \o p.user,
       <<"PWD", "=">> \o p.password,
       <<"Security", "=", "SSL">>,
       <<"CONNECTTIMEOUT", "=">> \o IntToStr(p.connect_timeout) >>
    \o (IF CaSupplied(p.ca_cert_path)
        THEN << <<"SSLServerCertificate", "=">> \o p.ca_cert_path.path >>
        ELSE <<>>)

\* dsn = ";".join(dsn_attrs)
dsn(p) == Join(";", dsn_attrs(p))

\* The URL create_engine_with_dsn hands to create_engine.
dsn_url(p) ==
    <<"ibm_db_sa", ":", "/", "/", "/", "?", "dsn", "=">> \o QuotePlus(dsn(p))

\* A variant of base with the credentials in the other order.
base_swapped(p) ==
    <<"ibm_db_sa", ":", "/", "/">> \o QuotePlus(p.password) \o <<":">>
        \o QuotePlus(p.user) \o <<"@">> \o p.host \o <<":">>
        \o IntToStr(p.port) \o <<"/">> \o p.database

\* base of create_engine_with_url_params.
base(p) ==
    <<"ibm_db_sa", ":", "/", "/">> \o QuotePlus(p.user) \o <<":">>
        \o QuotePlus(p.password) \o <<"@">> \o p.host \o <<":">>
        \o IntToStr(p.port) \o <<"/">> \o p.database

\* params of create_engine_with_url_params, in insertion order, as pairs.
params(p) ==
    << <<<<"security">>, <<"SSL">>>>,
       <<<<"connecttimeout">>, IntToStr(p.connect_timeout)>> >>
    \o (IF CaSupplied(p.ca_cert_path)
        THEN << <<<<"SSLServerCertificate">>, p.ca_cert_path.path>> >>
        ELSE <<>>)

\* A variant of qs that embeds the values as they are.
qs_raw(p) ==
    Join("&", [i \in 1..Len(params(p)) |->
                  params(p)[i][1] \o <<"=">> \o params(p)[i][2]])

\* qs = "&".join(f"{k}={quote_plus(v)}" for k, v in params.items())
qs(p) ==
    Join("&", [i \in 1..Len(params(p)) |->
                  params(p)[i][1] \o <<"=">> \o QuotePlus(params(p)[i][2])])

\* url = base + ("?" + qs if qs else "")
params_url(p) ==
    base(p) \o (IF qs(p) # <<>> THEN <<"?">> \o qs(p) ELSE <<>>)

create_engine_with_dsn(p) == create_engine(dsn_url(p))

create_engine_with_url_params(p) == create_engine(params_url(p))

(***************************************************************************)
(* test_connection                                                         *)
(***************************************************************************)

\* Exception classes an engine may raise: SQLAlchemyError, a subclass of it
\* (a wrapped driver error), and one outside that hierarchy.
ExcClasses == {"SQLAlchemyError", "OperationalError", "RuntimeError"}

\* str(e) of a raised error.
ExcMessages == {"SQL30081N", "SQL30082N"}

Errors == [cls : ExcClasses, msg : ExcMessages]

NoError == [cls |-> "", msg |-> "", at |-> ""]

\* The error e raised by the call named at.
Raised(e, at) == [cls |-> e.cls, msg |-> e.msg, at |-> at]

\* What result.scalar() may return.
Scalars == {"1", "0", "None"}

\* A variant of the except clause that matches the named class only.
IsExactlySQLAlchemyError(e) == e.cls = "SQLAlchemyError"

\* isinstance(e, SQLAlchemyError): what `except SQLAlchemyError` matches.
IsSQLAlchemyError(e) == e.cls \in {"SQLAlchemyError", "OperationalError"}

\* A variant that closes the connection at the end of the block only.
CloseAtEndOnly(n, raising) == IF raising THEN n ELSE n - 1

\* Leaving `with engine.connect() as conn`, normally or by an exception:
\* the connection goes back to the pool.
ExitWith(n, raising) == n - 1

\* A variant that compares the scalar read with 1.
ScalarIsOne(v) == IF v = "1" THEN "True" ELSE "False"

\* `return True` after the with block.
ReturnAfterWith(v) == "True"

(***************************************************************************)
(* State                                                                   *)
(***************************************************************************)

VARIABLES
    args,          \* the arguments the builders are called with
    engine_dsn,    \* what create_engine_with_dsn returned, or NoEngine
    engine_url,    \* what create_engine_with_url_params returned, or NoEngine
    pc,            \* where the script is
    checked_out,   \* connections of the pool held by test_connection
    val,           \* the scalar read
    exc,           \* the error raised inside test_connection, or NoError
    ret,           \* what test_connection returned: "True", "False" or "unset"
    out            \* the lines printed so far

vars == <<args, engine_dsn, engine_url, pc, checked_out, val, exc, ret, out>>

conn_vars == <<pc, checked_out, val, exc, ret, out>>

\* Tokens argument strings are made of: every reserved character the
\* descriptors use as a delimiter or escape, a digit and an attribute name.
Chars == {" ", "@", "!", ":", "/", ";", "=", "?", "&", "%", "+", "4",
          "SSLServerCertificate"}

Words == UNION {[1..n -> Chars] : n \in 0..MaxLen}

StrFields == {"user", "password", "host", "database"}

Ports == {1, 50000, 65535}

Timeouts == {1, 10, 30}

\* The example of the specification: user "a b", password "p@ss!".
ExampleArgs ==
    [user |-> <<"a", " ", "b">>, password |-> <<"p", "@", "ss", "!">>,
     host |-> <<"db.example.com">>, port |-> 50000, database |-> <<"MYDB">>,
     ca_cert_path |-> None, connect_timeout |-> 10]

\* Calls of the builders: one string argument ranges over every word, with
\* and without a CA path; the CA path ranges over every word; the numbers
\* range over their sets; and the example.
BuildArgs ==
    {[[Defaults EXCEPT ![f] = w] EXCEPT !.ca_cert_path = c] :
        f \in StrFields, w \in Words, c \in {None, Some(DB2_CA_CERT)}}
    \cup {[Defaults EXCEPT !.ca_cert_path = Some(w)] : w \in Words}
    \cup {[Defaults EXCEPT !.port = n, !.connect_timeout = t] :
            n \in Ports, t \in Timeouts}
    \cup {ExampleArgs, [ExampleArgs EXCEPT !.ca_cert_path = Some(DB2_CA_CERT)]}

\* What the script reads from the environment: every value is a string (the
\* CA path possibly empty) or the default.
MainArgs ==
    {[Defaults EXCEPT !.password = w, !.ca_cert_path = Some(c)] :
        w \in {DB2_PASSWORD, ExampleArgs.password},
        c \in {DB2_CA_CERT, <<>>}}

InitBuild ==
    /\ args \in BuildArgs
    /\ engine_dsn = NoEngine
    /\ engine_url = NoEngine
    /\ pc = "lib"
    /\ checked_out = 0
    /\ val = "unset"
    /\ exc = NoError
    /\ ret = "unset"
    /\ out = <<>>

Init ==
    /\ args \in MainArgs
    /\ engine_dsn = NoEngine
    /\ engine_url = NoEngine
    /\ pc = "main"
    /\ checked_out = 0
    /\ val = "unset"
    /\ exc = NoError
    /\ ret = "unset"
    /\ out = <<>>

(***************************************************************************)
(* The builders, called as library functions                               *)
(***************************************************************************)

CallCreateEngineWithDsn ==
    /\ pc = "lib"
    /\ engine_dsn = NoEngine
    /\ engine_dsn' = create_engine_with_dsn(args)
    /\ UNCHANGED <<args, engine_url, conn_vars>>

CallCreateEngineWithUrlParams ==
    /\ pc = "lib"
    /\ engine_url = NoEngine
    /\ engine_url' = create_engine_with_url_params(args)
    /\ UNCHANGED <<args, engine_dsn, conn_vars>>

NextBuild == CallCreateEngineWithDsn \/ CallCreateEngineWithUrlParams

SpecBuild == InitBuild /\ [][NextBuild]_vars

(***************************************************************************)
(* The script: build the engine, test the connection, report               *)
(***************************************************************************)

\* engine = create_engine_with_dsn(...)
MainCreateEngine ==
    /\ pc = "main"
    /\ engine_dsn' = create_engine_with_dsn(args)
    /\ pc' = "connect"
    /\ UNCHANGED <<args, engine_url, checked_out, val, exc, ret, out>>

\* engine.connect() returns a connection.
ConnectOk ==
    /\ pc = "connect"
    /\ checked_out' = checked_out + 1
    /\ pc' = "execute"
    /\ UNCHANGED <<args, engine_dsn, engine_url, val, exc, ret, out>>

\* engine.connect() raises: no connection was acquired.
ConnectRaises ==
    /\ pc = "connect"
    /\ \E e \in Errors : exc' = Raised(e, "connect")
    /\ pc' = "raised"
    /\ UNCHANGED <<args, engine_dsn, engine_url, checked_out, val, ret, out>>

\* conn.execute(text(...)) returns a result.
ExecuteOk ==
    /\ pc = "execute"
    /\ pc' = "scalar"
    /\ UNCHANGED <<args, engine_dsn, engine_url, checked_out, val, exc, ret, out>>

\* conn.execute raises: the with block is left by the exception.
ExecuteRaises ==
    /\ pc = "execute"
    /\ \E e \in Errors : exc' = Raised(e, "execute")
    /\ checked_out' = ExitWith(checked_out, TRUE)
    /\ pc' = "raised"
    /\ UNCHANGED <<args, engine_dsn, engine_url, val, ret, out>>

\* val = result.scalar()
ScalarOk ==
    /\ pc = "scalar"
    /\ \E v \in Scalars : val' = v
    /\ pc' = "print"
    /\ UNCHANGED <<args, engine_dsn, engine_url, checked_out, exc, ret, out>>

\* result.scalar() raises: the with block is left by the exception.
ScalarRaises ==
    /\ pc = "scalar"
    /\ \E e \in Errors : exc' = Raised(e, "scalar")
    /\ checked_out' = ExitWith(checked_out, TRUE)
    /\ pc' = "raised"
    /\ UNCHANGED <<args, engine_dsn, engine_url, val, ret, out>>

\* print("Connection test returned:", val); the with block ends; return True
PrintAndReturn ==
    /\ pc = "print"
    /\ out' = Append(out, <<"Connection test returned:", val>>)
    /\ checked_out' = ExitWith(checked_out, FALSE)
    /\ ret' = ReturnAfterWith(val)
    /\ pc' = "returned"
    /\ UNCHANGED <<args, engine_dsn, engine_url, val, exc>>

\* except SQLAlchemyError as e: print(...); return False
ExceptSQLAlchemyError ==
    /\ pc = "raised"
    /\ IsSQLAlchemyError(exc)
    /\ out' = Append(out, <<"Connection test failed:", exc.msg>>)
    /\ ret' = "False"
    /\ pc' = "returned"
    /\ UNCHANGED <<args, engine_dsn, engine_url, checked_out, val, exc>>

\* No except clause matches: the error leaves test_connection and ends the
\* script.
Propagate ==
    /\ pc = "raised"
    /\ ~IsSQLAlchemyError(exc)
    /\ pc' = "propagated"
    /\ UNCHANGED <<args, engine_dsn, engine_url, checked_out, val, exc, ret, out>>

\* if ok: print("Connected OK ...") else: print("Failed to connect ...")
MainReport ==
    /\ pc = "returned"
    /\ out' = Append(out, IF ret = "True"
                          THEN <<"Connected OK to DB2 over SSL.">>
                          ELSE <<"Failed to connect to DB2. See error output above.">>)
    /\ pc' = "done"
    /\ UNCHANGED <<args, engine_dsn, engine_url, checked_out, val, exc, ret>>

Next ==
    \/ MainCreateEngine
    \/ ConnectOk
    \/ ConnectRaises
    \/ ExecuteOk
    \/ ExecuteRaises
    \/ ScalarOk
    \/ ScalarRaises
    \/ PrintAndReturn
    \/ ExceptSQLAlchemyError
    \/ Propagate
    \/ MainReport

Spec == Init /\ [][Next]_vars

(***************************************************************************)
(* What a consumer of the descriptors does with them: decoding and         *)
(* splitting.  Used by the properties only.                                *)
(***************************************************************************)

IsHexDigit(t) == \E i \in 1..Len(HexDigits) : HexDigits[i] = t

HexValue(t) == (CHOOSE i \in 1..Len(HexDigits) : HexDigits[i] = t) - 1

\* The character with the given code; codes of no modelled character decode
\* to a token no argument contains.
Chr(n) ==
    IF \E c \in Reserved : Ord(c) = n
    THEN CHOOSE c \in Reserved : Ord(c) = n
    ELSE "<other>"

\* urllib.parse.unquote_plus: "+" is a space, "%XY" the character of code XY,
\* a "%" not followed by two hex digits stays.
RECURSIVE UnquotePlus(_)
UnquotePlus(s) ==
    IF s = <<>> THEN <<>>
    ELSE IF s[1] = "%" /\ Len(s) >= 3 /\ IsHexDigit(s[2]) /\ IsHexDigit(s[3])
    THEN <<Chr(16 * HexValue(s[2]) + HexValue(s[3]))>>
             \o UnquotePlus(SubSeq(s, 4, Len(s)))
    ELSE <<IF s[1] = "+" THEN " " ELSE s[1]>> \o UnquotePlus(Tail(s))

Contains(s, c) == \E i \in 1..Len(s) : s[i] = c

Count(s, c) == Cardinality({i \in 1..Len(s) : s[i] = c})

\* Index of the first c in s, 0 when there is none.
IndexOf(s, c) ==
    IF Contains(s, c)
    THEN CHOOSE i \in 1..Len(s) : s[i] = c /\ \A j \in 1..(i - 1) : s[j] # c
    ELSE 0

\* Index of the last c in s, 0 when there is none.
LastIndexOf(s, c) ==
    IF Contains(s, c)
    THEN CHOOSE i \in 1..Len(s) : s[i] = c /\ \A j \in (i + 1)..Len(s) : s[j] # c
    ELSE 0

Before(s, c) == IF Contains(s, c) THEN SubSeq(s, 1, IndexOf(s, c) - 1) ELSE s

After(s, c) ==
    IF Contains(s, c) THEN SubSeq(s, IndexOf(s, c) + 1, Len(s)) ELSE <<>>

\* s.split(sep)
RECURSIVE Split(_, _)
Split(s, sep) ==
    IF Contains(s, sep)
    THEN <<Before(s, sep)>> \o Split(After(s, sep), sep)
    ELSE <<s>>

\* int(s) for a string of decimal digits.
RECURSIVE StrToInt(_)
StrToInt(s) ==
    IF s = <<>> THEN 0
    ELSE 10 * StrToInt(SubSeq(s, 1, Len(s) - 1))
         + ((CHOOSE i \in 1..Len(DecDigits) : DecDigits[i] = s[Len(s)]) - 1)

IsDecimal(s) ==
    /\ s # <<>>
    /\ \A i \in 1..Len(s) : \E d \in 1..Len(DecDigits) : DecDigits[d] = s[i]

\* The keys of a list of KEY=VALUE items (the part before the first "=").
KeysOf(items) == [i \in 1..Len(items) |-> Before(items[i], "=")]

HasKey(items, k) == \E i \in 1..Len(items) : Before(items[i], "=") = k

\* The value of the first item with key k.
ValueOf(items, k) ==
    After(items[CHOOSE i \in 1..Len(items) :
                    /\ Before(items[i], "=") = k
                    /\ \A j \in 1..(i - 1) : Before(items[j], "=") # k], "=")

DsnPrefix == <<"ibm_db_sa", ":", "/", "/", "/", "?", "dsn", "=">>

\* The value of the dsn query parameter of a Strategy A URL.
DsnParam(url) == SubSeq(url, Len(DsnPrefix) + 1, Len(url))

\* The attributes a driver reads from a Strategy A URL.
DsnItems(url) == Split(UnquotePlus(DsnParam(url)), ";")

Scheme == <<"ibm_db_sa", ":", "/", "/">>

\* A URL without its scheme and without its fragment.
AfterScheme(url) == Before(SubSeq(url, Len(Scheme) + 1, Len(url)), "#")

\* Standard URL parts of a Strategy B URL.
Netloc(url) == Before(Before(AfterScheme(url), "/"), "?")

UserInfo(url) == SubSeq(Netloc(url), 1, LastIndexOf(Netloc(url), "@") - 1)

HostPort(url) ==
    SubSeq(Netloc(url), LastIndexOf(Netloc(url), "@") + 1, Len(Netloc(url)))

UrlUser(url) == UnquotePlus(Before(UserInfo(url), ":"))

UrlHost(url) == Before(HostPort(url), ":")

UrlPort(url) == After(HostPort(url), ":")

UrlDatabase(url) == Before(After(AfterScheme(url), "/"), "?")

\* The query parameters of a Strategy B URL.
QueryItems(url) ==
    IF Contains(AfterScheme(url), "?")
    THEN Split(After(AfterScheme(url), "?"), "&")
    ELSE <<>>

StringArgs(p) == <<p.database, p.host, p.user, p.password>>

DsnBuilt == engine_dsn # NoEngine

UrlBuilt == engine_url # NoEngine

Ended == pc \in {"returned", "propagated", "done"}

(***************************************************************************)
(* Properties of test_connection (checked under Spec)                      *)
(***************************************************************************)

SQLAlchemyFamily == {"SQLAlchemyError", "OperationalError"}

\* C1, as the claim states it: every error raised by connect, execute or
\* scalar ends in the return value False and never leaves test_connection.
C1_AnyErrorReturnsFalse ==
    (Ended /\ exc # NoError) => (ret = "False" /\ pc # "propagated")

\* C1, amended: an error that is a SQLAlchemyError (the class or a subclass)
\* raised by connect, execute or scalar ends in the return value False and
\* does not leave test_connection; an error of any other class does leave
\* it, and test_connection returns nothing.
C1_SQLAlchemyErrorReturnsFalse ==
    /\ (Ended /\ exc # NoError /\ exc.cls \in SQLAlchemyFamily)
           => (ret = "False" /\ pc # "propagated")
    /\ (Ended /\ exc # NoError /\ exc.cls \notin SQLAlchemyFamily)
           => (ret = "unset" /\ pc = "propagated")

C1_Witness ==
    /\ pc = "returned"
    /\ exc.cls = "OperationalError"
    /\ exc.at = "execute"
    /\ ret = "False"

\* C2: test_connection never holds more than one connection, and holds none
\* once it has ended, by a return or by an exception.
C2_ConnectionReleased ==
    /\ checked_out \in {0, 1}
    /\ Ended => checked_out = 0

C2_Witness ==
    /\ pc = "propagated"
    /\ exc.at = "scalar"
    /\ checked_out = 0

\* C3: when connect, execute and scalar raise nothing, test_connection
\* returns True whatever scalar value was read (1 included), and it returns
\* True only then.
C3_TrueIffNoError ==
    /\ (pc \in {"returned", "done"} /\ exc = NoError) => ret = "True"
    /\ ret = "True" => (exc = NoError /\ val \in Scalars)

C3_Witness ==
    /\ pc = "returned"
    /\ val = "1"
    /\ ret = "True"

(***************************************************************************)
(* Properties of the builders (checked under SpecBuild)                    *)
(***************************************************************************)

\* The attribute list as the claims describe it, written out.
ExpectedDsn(p) ==
    <<"DATABASE", "=">> \o p.database
    \o <<";", "HOSTNAME", "=">> \o p.host
    \o <<";", "PORT", "=">> \o IntToStr(p.port)
    \o <<";", "PROTOCOL", "=", "TCPIP">>
    \o <<";", "UID", "=">> \o p.user
    \o <<";", "PWD", "=">> \o p.password
    \o <<";", "Security", "=", "SSL">>
    \o <<";", "CONNECTTIMEOUT", "=">> \o IntToStr(p.connect_timeout)
    \o (IF p.ca_cert_path.given /\ p.ca_cert_path.path # <<>>
        THEN <<";", "SSLServerCertificate", "=">> \o p.ca_cert_path.path
        ELSE <<>>)

\* Only escapes and unreserved runs: the text is one opaque token of a URL.
IsOpaque(s) == \A i \in 1..Len(s) : s[i] \notin (Reserved \ {"%", "+"})

\* C4: the URL of create_engine_with_dsn is ibm_db_sa:///?dsn=<value>, the
\* value is one opaque token, and decoding it gives back the semicolon-joined
\* attribute list with every argument value intact.
C4_DsnRoundTrip ==
    DsnBuilt =>
        /\ SubSeq(engine_dsn.url, 1, Len(DsnPrefix)) = DsnPrefix
        /\ IsOpaque(DsnParam(engine_dsn.url))
        /\ UnquotePlus(DsnParam(engine_dsn.url)) = ExpectedDsn(args)

C4_Witness ==
    /\ DsnBuilt
    /\ args.password = <<"+", "%">>

\* The characters the claim C5 calls special.
ClaimSpecials == {";", "=", "@", ":", "/", "?", "&", "#", "%", "+", " "}

NoSpecial(p) ==
    \A s \in {p.user, p.password, p.host, p.database, p.ca_cert_path.path} :
        \A i \in 1..Len(s) : s[i] \notin ClaimSpecials

\* C5: for arguments without special characters, parsing either descriptor
\* gives back the host, port, database and user that were passed in.
C5_ParseBack ==
    NoSpecial(args) =>
        /\ DsnBuilt =>
            LET items == DsnItems(engine_dsn.url) IN
            /\ \A k \in {"HOSTNAME", "PORT", "DATABASE", "UID"} :
                   HasKey(items, <<k>>)
            /\ ValueOf(items, <<"HOSTNAME">>) = args.host
            /\ IsDecimal(ValueOf(items, <<"PORT">>))
            /\ StrToInt(ValueOf(items, <<"PORT">>)) = args.port
            /\ ValueOf(items, <<"DATABASE">>) = args.database
            /\ ValueOf(items, <<"UID">>) = args.user
        /\ UrlBuilt =>
            /\ UrlHost(engine_url.url) = args.host
            /\ IsDecimal(UrlPort(engine_url.url))
            /\ StrToInt(UrlPort(engine_url.url)) = args.port
            /\ UrlDatabase(engine_url.url) = args.database
            /\ UrlUser(engine_url.url) = args.user

C5_Witness ==
    /\ DsnBuilt
    /\ UrlBuilt
    /\ NoSpecial(args)
    /\ args.user = <<"!", "4">>

CertKey == <<"SSLServerCertificate">>

DsnEndsWithCert(url, path) ==
    LET d == UnquotePlus(DsnParam(url))
        suffix == <<";", "SSLServerCertificate", "=">> \o path
    IN  /\ Len(d) >= Len(suffix)
        /\ SubSeq(d, Len(d) - Len(suffix) + 1, Len(d)) = suffix

\* The last query parameter is SSLServerCertificate=<percent-encoded path>.
UrlEndsWithCert(url, path) ==
    LET last == SubSeq(url, LastIndexOf(url, "&") + 1, Len(url))
    IN  /\ Contains(url, "&")
        /\ Before(last, "=") = CertKey
        /\ Contains(last, "=")
        /\ IsOpaque(After(last, "="))
        /\ UnquotePlus(After(last, "=")) = path

\* C7, as the claim states it: every path string passed as ca_cert_path is
\* in both descriptors.
C7_EveryPathEmbedded ==
    args.ca_cert_path.given =>
        /\ DsnBuilt => DsnEndsWithCert(engine_dsn.url, args.ca_cert_path.path)
        /\ UrlBuilt => UrlEndsWithCert(engine_url.url, args.ca_cert_path.path)

\* C7, amended: every non-empty path string passed as ca_cert_path is in
\* both descriptors, as the last DSN attribute SSLServerCertificate=<path>
\* and as the query parameter SSLServerCertificate=<percent-encoded path>.
C7_NonEmptyPathEmbedded ==
    (args.ca_cert_path.given /\ args.ca_cert_path.path # <<>>) =>
        /\ DsnBuilt => DsnEndsWithCert(engine_dsn.url, args.ca_cert_path.path)
        /\ UrlBuilt => UrlEndsWithCert(engine_url.url, args.ca_cert_path.path)

C7_Witness ==
    /\ DsnBuilt
    /\ UrlBuilt
    /\ args.ca_cert_path = Some(<<";", "&">>)

\* The credentials segment: between the scheme and the first "@".
Credentials(url) == Before(SubSeq(url, Len(Scheme) + 1, Len(url)), "@")

\* C8: the credentials segment of the Strategy B URL holds no literal
\* reserved character of user or password, exactly one ":" separates the
\* two, each decodes to the argument, and the first "@" of the URL is the
\* one before the host.
C8_CredentialsEncoded ==
    UrlBuilt =>
        LET url == engine_url.url
            seg == Credentials(url)
            rest == SubSeq(url, Len(Scheme) + Len(seg) + 2, Len(url))
        IN  /\ SubSeq(url, 1, Len(Scheme)) = Scheme
            /\ Contains(url, "@")
            /\ \A i \in 1..Len(seg) : seg[i] \notin (Reserved \ {"%", "+", ":"})
            /\ Count(seg, ":") = 1
            /\ UnquotePlus(Before(seg, ":")) = args.user
            /\ UnquotePlus(After(seg, ":")) = args.password
            /\ SubSeq(rest, 1, Len(args.host) + 1) = args.host \o <<":">>
            /\ args = ExampleArgs =>
                   seg = <<"a", "+", "b", ":",
                           "p", "%", "4", "0", "ss", "%", "2", "1">>

C8_Witness ==
    /\ UrlBuilt
    /\ args = ExampleArgs

\* Occurrences of c in the strings of a list.
RECURSIVE CountAll(_, _)
CountAll(list, c) ==
    IF list = <<>> THEN 0 ELSE Count(list[1], c) + CountAll(Tail(list), c)

DsnKeys ==
    << <<"DATABASE">>, <<"HOSTNAME">>, <<"PORT">>, <<"PROTOCOL">>, <<"UID">>,
       <<"PWD">>, <<"Security">>, <<"CONNECTTIMEOUT">> >>

\* C10, as the claim states it: when no value contains ";", the decoded DSN
\* split on ";" has the 8 attributes DATABASE .. CONNECTTIMEOUT in order when
\* ca_cert_path is None, and those followed by SSLServerCertificate, 9 in
\* all, whenever a CA path string is passed.
C10_NineWithAnyPath ==
    LET ca == args.ca_cert_path
        values == StringArgs(args) \o <<ca.path>>
    IN  (DsnBuilt /\ CountAll(values, ";") = 0) =>
            /\ Len(DsnItems(engine_dsn.url)) = (IF ca.given THEN 9 ELSE 8)
            /\ KeysOf(DsnItems(engine_dsn.url)) =
                   DsnKeys \o (IF ca.given THEN <<CertKey>> ELSE <<>>)

\* C10, amended: the decoded DSN, split on ";", has the attributes DATABASE,
\* HOSTNAME, PORT, PROTOCOL=TCPIP, UID, PWD, Security=SSL, CONNECTTIMEOUT in
\* this order, then SSLServerCertificate exactly when a non-empty CA path is
\* passed: when no value contains ";" that is 8 attributes without a CA path
\* or with an empty one and 9 with a non-empty one, each key once, each
\* value as passed, "=" included; and every ";" in a value adds one more
\* piece, since values are not sanitized.
C10_AttributeOrder ==
    DsnBuilt =>
        LET items == DsnItems(engine_dsn.url)
            ca == args.ca_cert_path
            withCa == ca.given /\ ca.path # <<>>
            values == StringArgs(args) \o (IF withCa THEN <<ca.path>> ELSE <<>>)
            extra == CountAll(values, ";")
        IN  /\ Len(items) = (IF withCa THEN 9 ELSE 8) + extra
            /\ extra = 0 =>
                /\ KeysOf(items) =
                       DsnKeys \o (IF withCa THEN <<CertKey>> ELSE <<>>)
                /\ After(items[1], "=") = args.database
                /\ After(items[2], "=") = args.host
                /\ After(items[3], "=") = IntToStr(args.port)
                /\ items[4] = <<"PROTOCOL", "=", "TCPIP">>
                /\ After(items[5], "=") = args.user
                /\ After(items[6], "=") = args.password
                /\ items[7] = <<"Security", "=", "SSL">>
                /\ After(items[8], "=") = IntToStr(args.connect_timeout)
                /\ withCa => After(items[9], "=") = ca.path

C10_Witness ==
    /\ DsnBuilt
    /\ args.password = <<"=", "4">>
    /\ args.ca_cert_path = Some(DB2_CA_CERT)

====
